---- MODULE Spec2Model ----
(***************************************************************************)
(* Model of the two batch loaders of the repository:                       *)
(*   src/Complaints.py      download -> read_csv -> clean_data -> INSERTs  *)
(*   src/USDemographics.py  download -> json.load -> flatten -> to_sql     *)
(*                                                                         *)
(* Python values are records tagged by their kind k:                       *)
(*   [k |-> "none"]                         None                           *)
(*   [k |-> "int",   v |-> n]               int / numpy.int64              *)
(*   [k |-> "float", v |-> n, w |-> h]      float n (h = FALSE) or n + 0.5 *)
(*   [k |-> "nan"]                          float('nan'), an empty cell    *)
(*   [k |-> "str",   v |-> <<"a", "b">>]    str, one character per element *)
(*   [k |-> "date",  x |-> y, y |-> m, z |-> d]   datetime.date(y, m, d)   *)
(*   [k |-> "NaT"]                          pandas.NaT                     *)
(***************************************************************************)
EXTENDS Integers, Sequences, FiniteSets, TLC

VARIABLES
    \* ---- Complaints.py: one process invocation after another ----
    pc,         \* position of the running invocation of main()
    zipFile,    \* the local file complaints.csv.zip: "absent", "partial" or "complete"
    data,       \* the name data of main(): Unset, None, or the DataFrame
    idx,        \* number of rows iterrows() has handed out in store_data_in_sql
    conn,       \* the pyodbc connection: "None", "open", "closed", or "dropped" by a kill
    pending,    \* rows inserted on the open connection and not yet committed
    table,      \* committed contents of the table Complaints
    run,        \* number of the current invocation (1-based)
    src,        \* the dataset the remote URL serves
    log,        \* what the current invocation did (observation only)
    okRuns,     \* number of invocations whose commit succeeded (observation only)
    \* ---- clean_data taken alone ----
    cRow,       \* the Record handed to clean_data
    cOut,       \* Unset, or what clean_data returned
    \* ---- USDemographics.py ----
    dpc,        \* position of the script
    payload,    \* the name json_data of the script: Unset or what json.load returned
    df,         \* the name df of the script: Unset or the DataFrame
    dtable,     \* the table USCountyDemographicsDetailed: its rows at the start, its
                \* rows now, and the number of to_sql calls that reached it
    dexit       \* how the process ended: "running", "ok", or the uncaught exception

cvars == <<pc, zipFile, data, idx, conn, pending, table, run, src, log, okRuns>>
kvars == <<cRow, cOut>>
dvars == <<dpc, payload, df, dtable, dexit>>
vars  == <<cvars, kvars, dvars>>

-----------------------------------------------------------------------------
(* Python values *)

None == [k |-> "none"]
Unset == [k |-> "unset"]      \* a name not bound yet
NaN  == [k |-> "nan"]
NaT  == [k |-> "NaT"]
PyI(n)          == [k |-> "int", v |-> n]
PyF(n, h)       == [k |-> "float", v |-> n, w |-> h]
PyS(s)          == [k |-> "str", v |-> s]
PyDate(y, m, d) == [k |-> "date", x |-> y, y |-> m, z |-> d]

Digits == <<"0", "1", "2", "3", "4", "5", "6", "7", "8", "9">>

IsDigit(c) == \E i \in 1..10 : Digits[i] = c

DigitVal(c) == (CHOOSE i \in 1..10 : Digits[i] = c) - 1

AllDigits(s) == \A i \in 1..Len(s) : IsDigit(s[i])

RECURSIVE DigitsVal(_)
DigitsVal(s) ==
    IF s = <<>> THEN 0
    ELSE 10 * DigitsVal(SubSeq(s, 1, Len(s) - 1)) + DigitVal(s[Len(s)])

RECURSIVE NatStr(_)
NatStr(n) ==
    IF n < 10 THEN <<Digits[n + 1]>>
    ELSE NatStr(n \div 10) \o <<Digits[(n % 10) + 1]>>

IntStr(n) == IF n < 0 THEN <<"-">> \o NatStr(-n) ELSE NatStr(n)

RECURSIVE LStrip(_)
LStrip(s) == IF s # <<>> /\ s[1] = " " THEN LStrip(Tail(s)) ELSE s

RECURSIVE RStrip(_)
RStrip(s) ==
    IF s # <<>> /\ s[Len(s)] = " " THEN RStrip(SubSeq(s, 1, Len(s) - 1)) ELSE s

\* bool(v): the test of "... if row.get(key) else None"
Truthy(v) ==
    CASE v.k = "none"  -> FALSE
      [] v.k = "int"   -> v.v # 0
      [] v.k = "float" -> ~(v.v = 0 /\ ~v.w)
      [] v.k = "nan"   -> TRUE
      [] v.k = "str"   -> v.v # <<>>
      [] OTHER         -> TRUE

\* int(v): [ok |-> TRUE, val |-> n], or [ok |-> FALSE] when int() raises
IntOfStr(s) ==
    LET t == RStrip(LStrip(s))
        signed == t # <<>> /\ t[1] \in {"-", "+"}
        body == IF signed THEN Tail(t) ELSE t
    IN  IF body # <<>> /\ AllDigits(body)
        THEN [ok |-> TRUE,
              val |-> IF signed /\ t[1] = "-" THEN -DigitsVal(body) ELSE DigitsVal(body)]
        ELSE [ok |-> FALSE]

PyInt(v) ==
    CASE v.k = "int"   -> [ok |-> TRUE, val |-> v.v]
      [] v.k = "float" -> [ok |-> TRUE, val |-> v.v]
      [] v.k = "str"   -> IntOfStr(v.v)
      [] OTHER         -> [ok |-> FALSE]

\* str(v)
PyStr(v) ==
    CASE v.k = "str"   -> v.v
      [] v.k = "int"   -> IntStr(v.v)
      [] v.k = "float" -> NatStr(v.v) \o (IF v.w THEN <<".", "5">> ELSE <<".", "0">>)
      [] v.k = "nan"   -> <<"n", "a", "n">>
      [] OTHER         -> <<"N", "o", "n", "e">>

IsLeap(y) == (y % 4 = 0 /\ y % 100 # 0) \/ y % 400 = 0

DaysIn(y, m) ==
    IF m = 2 THEN (IF IsLeap(y) THEN 29 ELSE 28)
    ELSE IF m \in {4, 6, 9, 11} THEN 30 ELSE 31

\* pd.to_datetime(v, errors='coerce').date() for the values a CSV cell holds.
\* Strings: the ISO form YYYY-MM-DD is parsed, every other string of the
\* model's inputs is unparsable and coerced to NaT; NaT.date() is NaT.
\* Numbers are nanoseconds since the epoch, all on 1970-01-01 here.
DateOfStr(s) ==
    IF /\ Len(s) = 10
       /\ s[5] = "-" /\ s[8] = "-"
       /\ AllDigits(SubSeq(s, 1, 4)) /\ AllDigits(SubSeq(s, 6, 7))
       /\ AllDigits(SubSeq(s, 9, 10))
    THEN LET y == DigitsVal(SubSeq(s, 1, 4))
             m == DigitsVal(SubSeq(s, 6, 7))
             d == DigitsVal(SubSeq(s, 9, 10))
         IN  IF /\ y \in 1678..2261   \* whole years a pandas.Timestamp covers
                /\ m \in 1..12
                /\ d \in 1..DaysIn(y, m)
             THEN PyDate(y, m, d)
             ELSE NaT
    ELSE NaT

ToDate(v) ==
    CASE v.k = "str"   -> DateOfStr(v.v)
      [] v.k = "int"   -> PyDate(1970, 1, 1)
      [] v.k = "float" -> PyDate(1970, 1, 1)
      [] OTHER         -> NaT

-----------------------------------------------------------------------------
(* Complaints.py: clean_data *)

SourceKeys ==
    <<"Complaint ID", "Product", "Issue", "Company", "State", "Submitted via",
      "Date received">>

CleanKeys ==
    <<"complaint_id", "product", "issue", "company", "state", "submitted_via",
      "date_received">>

\* row.get(key)
Get(row, key) == IF key \in DOMAIN row THEN row[key] ELSE None

\* variant: the value is passed on without str()
StrFieldUncast(row, key) ==
    IF Truthy(Get(row, key)) THEN Get(row, key) ELSE None

StrField(row, key) ==
    IF Truthy(Get(row, key)) THEN PyS(PyStr(Get(row, key))) ELSE None

IdField(row) ==
    IF Truthy(Get(row, "Complaint ID"))
    THEN PyI(PyInt(Get(row, "Complaint ID")).val)
    ELSE None

DateField(row) ==
    IF Truthy(Get(row, "Date received"))
    THEN ToDate(Get(row, "Date received"))
    ELSE None

\* variant: to_datetime without errors='coerce' raises on an unparsable date
CleanRaisesOnBadDate(row) ==
    \/ /\ Truthy(Get(row, "Complaint ID"))
       /\ ~PyInt(Get(row, "Complaint ID")).ok
    \/ /\ Truthy(Get(row, "Date received"))
       /\ ToDate(Get(row, "Date received")) = NaT

\* the only cast of the dict display that can raise is int()
CleanRaises(row) ==
    /\ Truthy(Get(row, "Complaint ID"))
    /\ ~PyInt(Get(row, "Complaint ID")).ok

clean_data(row) ==
    IF CleanRaises(row) THEN None
    ELSE [complaint_id  |-> IdField(row),
          product       |-> StrField(row, "Product"),
          issue         |-> StrField(row, "Issue"),
          company       |-> StrField(row, "Company"),
          state         |-> StrField(row, "State"),
          submitted_via |-> StrField(row, "Submitted via"),
          date_received |-> DateField(row)]

-----------------------------------------------------------------------------
(* Complaints.py: the datasets the model runs on *)

MaxRows == 3    \* rows of a served CSV
MaxRuns == 2    \* invocations of the script, one after the other

Rec7(id, product, issue, company, state, via, date) ==
    [key \in {SourceKeys[i] : i \in 1..7} |->
        CASE key = "Complaint ID"  -> id
          [] key = "Product"       -> product
          [] key = "Issue"         -> issue
          [] key = "Company"       -> company
          [] key = "State"         -> state
          [] key = "Submitted via" -> via
          [] OTHER                 -> date]

\* a complete row
RowLoan ==
    Rec7(PyI(123), PyS(<<"L", "o", "a", "n">>), PyS(<<"F", "e", "e">>),
         PyS(<<"A", "c", "m", "e">>), PyS(<<"C", "A">>), PyS(<<"W", "e", "b">>),
         PyS(<<"2", "0", "2", "1", "-", "0", "1", "-", "0", "5">>))

\* a row whose Complaint ID cell is empty: read_csv gives NaN, int(NaN) raises
RowNoId ==
    Rec7(NaN, PyS(<<"C", "a", "r", "d">>), NaN, PyS(<<"A", "c", "m", "e">>),
         PyS(<<"N", "Y">>), PyS(<<"F", "a", "x">>),
         PyS(<<"2", "0", "2", "0", "-", "0", "2", "-", "2", "9">>))

\* a row whose date cannot be parsed and whose State cell is empty
RowBadDate ==
    Rec7(PyI(7), PyS(<<"C", "a", "r", "d">>), PyS(<<"F", "e", "e">>), PyI(0), NaN,
         PyS(<<"W", "e", "b">>),
         PyS(<<"n", "o", "t", "-", "a", "-", "d", "a", "t", "e">>))

RowKinds == {RowLoan, RowNoId, RowBadDate}

Frames == UNION {[1..n -> RowKinds] : n \in 0..MaxRows}

\* what the URL serves: a zipped CSV with the seven columns, a zipped CSV that
\* lacks one of them, or bytes that are no zip archive of one CSV
Sources ==
    {[zip |-> "csv", cols |-> TRUE, rows |-> f] : f \in Frames}
    \cup {[zip |-> "csv", cols |-> FALSE, rows |-> <<>>],
          [zip |-> "garbage", cols |-> FALSE, rows |-> <<>>]}

\* a row the table held before the first invocation
LegacyRow ==
    [complaint_id |-> PyI(1), product |-> None, issue |-> None, company |-> None,
     state |-> None, submitted_via |-> None, date_received |-> None]

NewLog(t) ==
    [fetch    |-> "none",   \* "ok", or how requests failed: "early", "mid", "oserror"
     extract  |-> "none",   \* "ok" or "fail"
     stages   |-> <<>>,     \* the stages of main() in the order they ran
     connect  |-> "none",   \* "ok" or "fail"
     inserts  |-> <<>>,     \* positions of the rows cursor.execute was called for
     failedAt |-> 0,        \* position of the row whose insert raised, or 0
     commits  |-> 0,        \* calls of conn.commit()
     closes   |-> 0,        \* calls of conn.close()
     raised   |-> "none",   \* the exception store_data_in_sql caught
     before   |-> t]        \* the table when the invocation started

InitComplaints ==
    /\ pc = "download"
    /\ zipFile = "absent"
    /\ data = Unset
    /\ idx = 0
    /\ conn = "None"
    /\ pending = <<>>
    /\ table \in {<<>>, <<LegacyRow>>}
    /\ run = 1
    /\ src \in Sources
    /\ log = NewLog(table)
    /\ okRuns = 0

IdleComplaints ==
    /\ pc = "off"
    /\ zipFile = "absent"
    /\ data = Unset
    /\ idx = 0
    /\ conn = "None"
    /\ pending = <<>>
    /\ table = <<>>
    /\ run = 0
    /\ src = [zip |-> "garbage", cols |-> FALSE, rows |-> <<>>]
    /\ log = NewLog(<<>>)
    /\ okRuns = 0

IdleClean == cRow = <<>> /\ cOut = Unset

IdleDemo ==
    /\ dpc = "off"
    /\ payload = Unset
    /\ df = Unset
    /\ dtable = [before |-> <<>>, rows |-> <<>>, writes |-> 0]
    /\ dexit = "running"

Stage(name) == [log EXCEPT !.stages = Append(@, name)]

-----------------------------------------------------------------------------
(* Complaints.py: download_csv_file *)

\* the GET succeeds and every chunk is written
DownloadOk ==
    /\ pc = "download"
    /\ zipFile' = "complete"
    /\ log' = [Stage("fetch") EXCEPT !.fetch = "ok"]
    /\ pc' = "extract"
    /\ UNCHANGED <<kvars, dvars, data, idx, conn, pending, table, run, src, okRuns>>

\* requests.get or raise_for_status raises before open(): the file is not touched
DownloadFailEarly ==
    /\ pc = "download"
    /\ log' = [Stage("fetch") EXCEPT !.fetch = "early"]
    /\ pc' = "extract"
    /\ UNCHANGED <<kvars, dvars, zipFile, data, idx, conn, pending, table, run, src, okRuns>>

\* iter_content raises after open(output_file, 'wb') truncated the file
DownloadFailMid ==
    /\ pc = "download"
    /\ zipFile' = "partial"
    /\ log' = [Stage("fetch") EXCEPT !.fetch = "mid"]
    /\ pc' = "extract"
    /\ UNCHANGED <<kvars, dvars, data, idx, conn, pending, table, run, src, okRuns>>

\* open() or file.write raises OSError, which the except clause does not name
DownloadOSError ==
    /\ pc = "download"
    /\ zipFile' \in {zipFile, "partial"}
    /\ log' = [Stage("fetch") EXCEPT !.fetch = "oserror"]
    /\ pc' = "raised"
    /\ UNCHANGED <<kvars, dvars, data, idx, conn, pending, table, run, src, okRuns>>

(* Complaints.py: extract_and_read_csv *)

Readable == zipFile = "complete" /\ src.zip = "csv"

ExtractOk ==
    /\ pc = "extract"
    /\ Readable
    /\ data' = [k |-> "frame", cols |-> src.cols, rows |-> src.rows]
    /\ log' = [Stage("structure") EXCEPT !.extract = "ok"]
    /\ pc' = "project"
    /\ UNCHANGED <<kvars, dvars, zipFile, idx, conn, pending, table, run, src, okRuns>>

ExtractFail ==
    /\ pc = "extract"
    /\ ~Readable
    /\ data' = None
    /\ log' = [Stage("structure") EXCEPT !.extract = "fail"]
    /\ pc' = "cleanup"
    /\ UNCHANGED <<kvars, dvars, zipFile, idx, conn, pending, table, run, src, okRuns>>

(* Complaints.py: main, the column projection of line 112 *)

ProjectOk ==
    /\ pc = "project"
    /\ data.cols
    /\ pc' = "connect"
    /\ UNCHANGED <<kvars, dvars, zipFile, data, idx, conn, pending, table, run, src, log, okRuns>>

ProjectKeyError ==
    /\ pc = "project"
    /\ ~data.cols
    /\ pc' = "raised"
    /\ UNCHANGED <<kvars, dvars, zipFile, data, idx, conn, pending, table, run, src, log, okRuns>>

(* Complaints.py: store_data_in_sql *)

ConnectOk ==
    /\ pc = "connect"
    /\ conn' = "open"
    /\ log' = [Stage("persist") EXCEPT !.connect = "ok"]
    /\ pc' = "cursor"
    /\ UNCHANGED <<kvars, dvars, zipFile, data, idx, pending, table, run, src, okRuns>>

\* pyodbc.connect raises: conn stays None
ConnectFail ==
    /\ pc = "connect"
    /\ log' = [Stage("persist") EXCEPT !.connect = "fail", !.raised = "connect"]
    /\ pc' = "finally"
    /\ UNCHANGED <<kvars, dvars, zipFile, data, idx, conn, pending, table, run, src, okRuns>>

CursorOk ==
    /\ pc = "cursor"
    /\ pc' = "iterate"
    /\ UNCHANGED <<kvars, dvars, zipFile, data, idx, conn, pending, table, run, src, log, okRuns>>

CursorFail ==
    /\ pc = "cursor"
    /\ log' = [log EXCEPT !.raised = "cursor"]
    /\ pc' = "finally"
    /\ UNCHANGED <<kvars, dvars, zipFile, data, idx, conn, pending, table, run, src, okRuns>>

\* "if cleaned_row:": a dict of seven keys is true, None is false
Kept(row) == clean_data(row) # None

\* the parameter tuple of cursor.execute, in the order of the column list
Params(c) ==
    <<c.complaint_id, c.product, c.issue, c.company, c.state, c.submitted_via,
      c.date_received>>

\* the row the tuple becomes in the table Complaints
TableRow(p) ==
    [id |-> p[1], product |-> p[2], issue |-> p[3], company |-> p[4],
     state |-> p[5], submitted_via |-> p[6], date_received |-> p[7]]

MoreRows == idx < Len(data.rows)

NextRow == data.rows[idx + 1]

\* variant: the failure of clean_data reaches the handler of store_data_in_sql
SkipRowAborts ==
    /\ pc = "iterate"
    /\ MoreRows
    /\ ~Kept(NextRow)
    /\ idx' = idx + 1
    /\ pc' = "finally"
    /\ UNCHANGED <<kvars, dvars, zipFile, data, conn, pending, table, run, src, log, okRuns>>

\* clean_data returned None: the row is passed over
SkipRow ==
    /\ pc = "iterate"
    /\ MoreRows
    /\ ~Kept(NextRow)
    /\ idx' = idx + 1
    /\ UNCHANGED <<kvars, dvars, pc, zipFile, data, conn, pending, table, run, src, log, okRuns>>

InsertOk ==
    /\ pc = "iterate"
    /\ MoreRows
    /\ Kept(NextRow)
    /\ idx' = idx + 1
    /\ pending' = Append(pending, TableRow(Params(clean_data(NextRow))))
    /\ log' = [log EXCEPT !.inserts = Append(@, idx + 1)]
    /\ UNCHANGED <<kvars, dvars, pc, zipFile, data, conn, table, run, src, okRuns>>

\* variant: the failure of one insert is caught inside the loop
InsertFailContinues ==
    /\ pc = "iterate"
    /\ MoreRows
    /\ Kept(NextRow)
    /\ idx' = idx + 1
    /\ log' = [log EXCEPT !.inserts = Append(@, idx + 1), !.failedAt = idx + 1]
    /\ UNCHANGED <<kvars, dvars, pc, zipFile, data, conn, pending, table, run, src, okRuns>>

\* cursor.execute raises: the except clause of the function is the only handler
InsertFail ==
    /\ pc = "iterate"
    /\ MoreRows
    /\ Kept(NextRow)
    /\ idx' = idx + 1
    /\ log' = [log EXCEPT !.inserts = Append(@, idx + 1), !.failedAt = idx + 1,
                          !.raised = "insert"]
    /\ pc' = "finally"
    /\ UNCHANGED <<kvars, dvars, zipFile, data, conn, pending, table, run, src, okRuns>>

LoopEnd ==
    /\ pc = "iterate"
    /\ ~MoreRows
    /\ pc' = "commit"
    /\ UNCHANGED <<kvars, dvars, zipFile, data, idx, conn, pending, table, run, src, log, okRuns>>

\* variant: the table rejects a row it already holds
CommitOkUnique ==
    /\ pc = "commit"
    /\ table' = table \o SelectSeq(pending, LAMBDA r : \A i \in 1..Len(table) : table[i] # r)
    /\ pending' = <<>>
    /\ okRuns' = okRuns + 1
    /\ log' = [log EXCEPT !.commits = @ + 1]
    /\ pc' = "finally"
    /\ UNCHANGED <<kvars, dvars, zipFile, data, idx, conn, run, src>>

CommitOk ==
    /\ pc = "commit"
    /\ table' = table \o pending
    /\ pending' = <<>>
    /\ okRuns' = okRuns + 1
    /\ log' = [log EXCEPT !.commits = @ + 1]
    /\ pc' = "finally"
    /\ UNCHANGED <<kvars, dvars, zipFile, data, idx, conn, run, src>>

CommitFail ==
    /\ pc = "commit"
    /\ log' = [log EXCEPT !.commits = @ + 1, !.raised = "commit"]
    /\ pc' = "finally"
    /\ UNCHANGED <<kvars, dvars, zipFile, data, idx, conn, pending, table, run, src, okRuns>>

\* variant: conn.close() at the end of the try body instead of in finally
FinallyClosesOnSuccess ==
    /\ pc = "finally"
    /\ IF conn = "open" /\ log.raised = "none"
       THEN /\ conn' = "closed"
            /\ pending' = <<>>
            /\ log' = [log EXCEPT !.closes = @ + 1]
       ELSE UNCHANGED <<conn, pending, log>>
    /\ pc' = "cleanup"
    /\ UNCHANGED <<kvars, dvars, zipFile, data, idx, table, run, src, okRuns>>

\* "finally: if conn: conn.close()"; closing discards what was not committed
Finally ==
    /\ pc = "finally"
    /\ IF conn = "open"
       THEN /\ conn' = "closed"
            /\ pending' = <<>>
            /\ log' = [log EXCEPT !.closes = @ + 1]
       ELSE UNCHANGED <<conn, pending, log>>
    /\ pc' = "cleanup"
    /\ UNCHANGED <<kvars, dvars, zipFile, data, idx, table, run, src, okRuns>>

(* Complaints.py: main, the removal of the archive *)

\* variant: the removal sits inside the "if data is not None" branch
CleanupAfterStoreOnly ==
    /\ pc = "cleanup"
    /\ zipFile' = IF data = None THEN zipFile ELSE "absent"
    /\ log' = Stage("cleanup")
    /\ pc' = "done"
    /\ UNCHANGED <<kvars, dvars, data, idx, conn, pending, table, run, src, okRuns>>

Cleanup ==
    /\ pc = "cleanup"
    /\ zipFile' = "absent"
    /\ log' = Stage("cleanup")
    /\ pc' = "done"
    /\ UNCHANGED <<kvars, dvars, data, idx, conn, pending, table, run, src, okRuns>>

(* the process and its successors *)

Ended == pc \in {"done", "raised", "killed"}

\* the process is terminated from outside; the server rolls back what the
\* connection had not committed, and a download under way leaves a partial file
Kill ==
    /\ ~Ended
    /\ pc' = "killed"
    /\ conn' = IF conn = "open" THEN "dropped" ELSE conn
    /\ pending' = <<>>
    /\ zipFile' \in IF pc = "download" THEN {zipFile, "partial"} ELSE {zipFile}
    /\ UNCHANGED <<kvars, dvars, data, idx, table, run, src, log, okRuns>>

\* the script is started again: a fresh process, the same disk and database
NextRun ==
    /\ Ended
    /\ run < MaxRuns
    /\ run' = run + 1
    /\ pc' = "download"
    /\ data' = Unset
    /\ idx' = 0
    /\ conn' = "None"
    /\ pending' = <<>>
    /\ log' = NewLog(table)
    /\ UNCHANGED <<kvars, dvars, zipFile, table, src, okRuns>>

Next ==
    \/ DownloadOk \/ DownloadFailEarly \/ DownloadFailMid \/ DownloadOSError
    \/ ExtractOk \/ ExtractFail
    \/ ProjectOk \/ ProjectKeyError
    \/ ConnectOk \/ ConnectFail \/ CursorOk \/ CursorFail
    \/ SkipRow \/ InsertOk \/ InsertFail \/ LoopEnd
    \/ CommitOk \/ CommitFail
    \/ Finally
    \/ Cleanup
    \/ Kill
    \/ NextRun

Init == InitComplaints /\ IdleClean /\ IdleDemo

Spec == Init /\ [][Next]_vars

-----------------------------------------------------------------------------
(* Properties of the complaints pipeline *)

Last(s) == s[Len(s)]

\* positions of the rows of a frame that clean_data does not drop, in order
RECURSIVE KeptPositions(_, _)
KeptPositions(rows, n) ==
    IF n = 0 THEN <<>>
    ELSE IF clean_data(rows[n]) # None
         THEN Append(KeptPositions(rows, n - 1), n)
         ELSE KeptPositions(rows, n - 1)

\* the table rows a frame contributes when every insert succeeds
CleanedRows(rows) ==
    LET ks == KeptPositions(rows, Len(rows))
    IN  [i \in 1..Len(ks) |-> TableRow(Params(clean_data(rows[ks[i]])))]

RECURSIVE Repeat(_, _)
Repeat(s, k) == IF k = 0 THEN <<>> ELSE s \o Repeat(s, k - 1)

Count(s, r) == Cardinality({i \in 1..Len(s) : s[i] = r})

StoreReturned == "persist" \in {log.stages[i] : i \in 1..Len(log.stages)}
                    /\ pc \in {"cleanup", "done"}

\* C1: when the insert of row N of a batch raises, commit is never executed,
\* no insert is attempted for a row after N, and the table Complaints holds
\* exactly the rows it held before the call.
C1_InsertFailureCommitsNothing ==
    log.failedAt # 0 =>
        /\ log.commits = 0
        /\ log.inserts # <<>>
        /\ Last(log.inserts) = log.failedAt
        /\ \A i \in 1..Len(log.inserts) : log.inserts[i] <= log.failedAt
        /\ table = log.before
        /\ (pc \in {"cleanup", "done"} => pending = <<>>)

\* row 2 of 3 failed after row 1 was inserted, and the call has returned
C1_Witness ==
    /\ pc = "done"
    /\ data.k = "frame"
    /\ Len(data.rows) = 3
    /\ log.inserts = <<1, 2>>
    /\ log.failedAt = 2
    /\ table = <<LegacyRow>>

\* C2: on every exit path of store_data_in_sql a connection that was opened is
\* closed before the function returns; when connect itself fails no close is
\* attempted and the function still returns normally.
C2_ConnectionAlwaysClosed ==
    /\ (pc \in {"cleanup", "done", "raised"} => conn # "open")
    /\ (StoreReturned /\ log.connect = "ok" => conn = "closed" /\ log.closes = 1)
    /\ (log.connect = "fail" =>
            /\ conn = "None"
            /\ log.closes = 0
            /\ pc \in {"finally", "cleanup", "done", "killed"})
    /\ (pc = "raised" => log.connect = "none")

\* the commit raised and the function has returned with the connection closed
C2_Witness ==
    /\ pc = "cleanup"
    /\ log.raised = "commit"
    /\ log.closes = 1
    /\ conn = "closed"

\* C4 as amended: in a call that obtained its connection and cursor and in which
\* no insert fails, the inserts executed are exactly the rows clean_data did not
\* drop, in source order and once each, followed by exactly one commit; a
\* dropped row does not abort the batch.
C4_DroppedRowsDoNotAbort ==
    (StoreReturned /\ log.connect = "ok" /\ log.raised \notin {"cursor", "insert"}) =>
        /\ log.inserts = KeptPositions(data.rows, Len(data.rows))
        /\ log.commits = 1
        /\ (log.raised = "none" => table = log.before \o CleanedRows(data.rows))

\* C4 as stated: whenever no insert fails
C4_AsStated ==
    (StoreReturned /\ log.failedAt = 0) =>
        /\ log.inserts = KeptPositions(data.rows, Len(data.rows))
        /\ log.commits = 1

\* the middle row of three was dropped, the rows around it were inserted
C4_Witness ==
    /\ pc = "done"
    /\ data.k = "frame"
    /\ data.rows = <<RowLoan, RowNoId, RowBadDate>>
    /\ log.inserts = <<1, 3>>
    /\ log.commits = 1
    /\ Len(table) = Len(log.before) + 2

\* C6: the pipeline appends without deduplication: after k runs that committed,
\* on the same source, the table is what it held at first followed by k copies
\* of the rows that clean successfully, so each such row appears k times for
\* each time the source holds it.
C6_AppendsWithoutDedup ==
    LET cleaned == CleanedRows(src.rows)
    IN  /\ \E t0 \in {<<>>, <<LegacyRow>>} : table = t0 \o Repeat(cleaned, okRuns)
        /\ \A i \in 1..Len(cleaned) :
                Count(table, cleaned[i]) = okRuns * Count(cleaned, cleaned[i])

\* two runs committed the same two rows
C6_Witness ==
    /\ okRuns = 2
    /\ pc = "done"
    /\ src.rows = <<RowLoan, RowBadDate>>
    /\ Count(table, TableRow(Params(clean_data(RowLoan)))) = 2
    /\ Count(table, TableRow(Params(clean_data(RowBadDate)))) = 2

StageRank(name) ==
    CASE name = "fetch"     -> 1
      [] name = "structure" -> 2
      [] name = "persist"   -> 3
      [] name = "cleanup"   -> 4

\* C9: the stages run in the order fetch, structure, persist, cleanup, each at
\* most once per run; when extract_and_read_csv fails no connection is opened,
\* no insert or commit is executed, and main returns normally with the archive
\* file absent.
C9_LinearStagesSkipPersist ==
    /\ \A i, j \in 1..Len(log.stages) :
            i < j => StageRank(log.stages[i]) < StageRank(log.stages[j])
    /\ (log.connect # "none" => log.extract = "ok")
    /\ (log.extract = "fail" =>
            /\ conn = "None"
            /\ log.connect = "none"
            /\ log.inserts = <<>>
            /\ log.commits = 0
            /\ table = log.before
            /\ pc \in {"cleanup", "done", "killed"}
            /\ (pc = "done" =>
                    zipFile = "absent" /\ log.stages = <<"fetch", "structure", "cleanup">>))

\* a truncated archive could not be read, and main returned after removing it
C9_Witness ==
    /\ pc = "done"
    /\ log.fetch = "mid"
    /\ log.extract = "fail"
    /\ zipFile = "absent"

\* C10: a run whose download fails with a transport error persists no rows,
\* whatever earlier runs left behind.
C10_FailedDownloadPersistsNothing ==
    log.fetch \in {"early", "mid"} =>
        /\ log.inserts = <<>>
        /\ table = log.before

-----------------------------------------------------------------------------
(* clean_data on its own: one call on any Record *)

Absent == [k |-> "absent"]     \* the Record has no such key

IdValues ==
    {Absent, None, NaN, PyI(0), PyI(123), PyI(-5), PyF(12, TRUE), PyF(0, FALSE),
     PyS(<<"1", "2", "3">>), PyS(<<" ", "4", "2", " ">>), PyS(<<"-", "7">>),
     PyS(<<"a", "b", "c">>), PyS(<<"1", "2", ".", "5">>), PyS(<<>>)}

ProductValues ==
    {Absent, None, NaN, PyS(<<"L", "o", "a", "n">>), PyS(<<>>), PyI(0), PyI(5),
     PyF(2, TRUE)}

IssueValues == {Absent, NaN, PyS(<<"F", "e", "e">>)}

DateValues ==
    {Absent, NaN, PyS(<<>>), PyI(0), PyI(20210105),
     PyS(<<"2", "0", "2", "1", "-", "0", "1", "-", "0", "5">>),
     PyS(<<"2", "0", "2", "0", "-", "0", "2", "-", "2", "9">>),
     PyS(<<"2", "0", "2", "1", "-", "0", "2", "-", "3", "0">>),
     PyS(<<"n", "o", "t", "-", "a", "-", "d", "a", "t", "e">>)}

\* the Record with the given values, without the keys whose value is Absent
MkRecord(id, product, issue, company, state, via, date) ==
    LET full == Rec7(id, product, issue, company, state, via, date)
    IN  [key \in {q \in DOMAIN full : full[q] # Absent} |-> full[key]]

Records ==
    {MkRecord(id, product, issue, company, state, via, date) :
        id \in IdValues, product \in ProductValues, issue \in IssueValues,
        company \in {Absent, PyS(<<"A", "c", "m", "e">>)},
        state \in {Absent, PyS(<<"C", "A">>)},
        via \in {Absent, PyS(<<"W", "e", "b">>)},
        date \in DateValues}

InitClean == cRow \in Records /\ cOut = Unset

\* cleaned_row = clean_data(row)
CallClean ==
    /\ cOut = Unset
    /\ cOut' = clean_data(cRow)
    /\ UNCHANGED <<cRow, cvars, dvars>>

CleanNext == CallClean

CleanInit == IdleComplaints /\ InitClean /\ IdleDemo

CleanSpec == CleanInit /\ [][CleanNext]_vars

\* None and pandas' NaT are the null markers of a cleaned value
IsNull(v) == v \in {None, NaT}

IsCalendarDate(v) ==
    /\ v.k = "date"
    /\ v.y \in 1..12
    /\ v.z \in 1..DaysIn(v.x, v.y)

\* C3: clean_data returns either None (the row is dropped) or a CleanedRow
\* with exactly the seven keys, each value null or of the field's type:
\* an integer for complaint_id, a string for the five text fields, a calendar
\* date for date_received.
C3_CleanedRowShape ==
    cOut # Unset =>
        \/ cOut = None
        \/ /\ DOMAIN cOut = {CleanKeys[i] : i \in 1..7}
           /\ IsNull(cOut.complaint_id) \/ cOut.complaint_id.k = "int"
           /\ \A f \in {"product", "issue", "company", "state", "submitted_via"} :
                  IsNull(cOut[f]) \/ (cOut[f].k = "str" /\ cOut[f].v # <<>>)
           /\ IsNull(cOut.date_received) \/ IsCalendarDate(cOut.date_received)

\* the Record {"Complaint ID": "123", "Product": "Loan", "Date received":
\* "2021-01-05"} came back as {123, "Loan", None, None, None, None, date(2021, 1, 5)}
C3_Witness ==
    /\ DOMAIN cRow = {"Complaint ID", "Product", "Date received"}
    /\ cRow["Complaint ID"] = PyS(<<"1", "2", "3">>)
    /\ cOut = [complaint_id  |-> PyI(123),
               product       |-> PyS(<<"L", "o", "a", "n">>),
               issue         |-> None,
               company       |-> None,
               state         |-> None,
               submitted_via |-> None,
               date_received |-> PyDate(2021, 1, 5)]

UnparsableDate(row) ==
    /\ Truthy(Get(row, "Date received"))
    /\ Get(row, "Date received").k \in {"str", "nan"}
    /\ ToDate(Get(row, "Date received")) = NaT

WithDate(row, d) == [key \in DOMAIN row |-> IF key = "Date received" THEN d ELSE row[key]]

\* C5 as amended: a Record whose "Date received" is present but unparsable is
\* dropped only when the cast of its "Complaint ID" raises; otherwise
\* clean_data returns a CleanedRow whose date_received is the null marker NaT
\* and whose other six fields are what they are for the same Record with a
\* good date.
C5_BadDateBecomesNull ==
    (cOut # Unset /\ UnparsableDate(cRow)) =>
        LET good == clean_data(WithDate(cRow,
                        PyS(<<"2", "0", "2", "1", "-", "0", "1", "-", "0", "5">>)))
            id == Get(cRow, "Complaint ID")
        IN  IF Truthy(id) /\ ~PyInt(id).ok
            THEN cOut = None
            ELSE /\ cOut # None
                 /\ cOut.date_received = NaT
                 /\ good # None
                 /\ \A f \in {"complaint_id", "product", "issue", "company", "state",
                              "submitted_via"} : cOut[f] = good[f]

\* C5 as stated: every Record with an unparsable date comes back as a CleanedRow
C5_AsStated ==
    (cOut # Unset /\ UnparsableDate(cRow)) =>
        /\ cOut # None
        /\ IsNull(cOut.date_received)

\* "not-a-date" beside a good identifier: the row is kept, the date is NaT
C5_Witness ==
    /\ Get(cRow, "Date received") = PyS(<<"n", "o", "t", "-", "a", "-", "d", "a", "t", "e">>)
    /\ cOut # Unset
    /\ cOut # None
    /\ cOut.complaint_id = PyI(123)
    /\ cOut.date_received = NaT

-----------------------------------------------------------------------------
(* USDemographics.py: JSON values                                           *)
(*   [k |-> "dict", v |-> f]   an object, f a function on its keys          *)
(*   [k |-> "list", v |-> s]   an array                                     *)
(* and None, PyI, PyF, PyS for null, numbers and strings                    *)

MaxRecords == 2     \* records of a loaded list

Dict(f) == [k |-> "dict", v |-> f]
List(s) == [k |-> "list", v |-> s]
EmptyDict == Dict(<<>>)

\* the AttributeError of .get on a value that is no dict
AttrErr == [k |-> "AttributeError"]

\* d.get(key, default)
DictGet(d, key, default) ==
    IF d.k = "dict"
    THEN IF key \in DOMAIN d.v THEN d.v[key] ELSE default
    ELSE AttrErr

age_groups ==
    <<"0_4", "5_9", "10_14", "15_19", "20_24", "25_29",
      "30_34", "35_39", "40_44", "45_49", "50_54", "55_59",
      "60_64", "65_69", "70_74", "75_79", "80_84", "85_Plus">>

Years == {"2019", "2010_census"}

\* f"population_{group}_2019", f"population_{group}_2010_census"
GroupColumn(group, year) == "population_" \o group \o "_" \o year

GroupColumns == {GroupColumn(age_groups[i], y) : i \in 1..Len(age_groups), y \in Years}

BaseColumns ==
    {"zipcode", "major_city", "state", "lat", "lng", "county",
     "population_2010_census", "population_2019", "median_age_total_2019",
     "median_age_male_2019", "median_age_female_2019"}

\* record.get(a, {}).get(b, {}).get(c)
Get3(record, a, b, c) ==
    DictGet(DictGet(DictGet(record, a, EmptyDict), b, EmptyDict), c, None)

\* record.get(a, {}).get(b, {}).get(c, {}).get(d)
Get4(record, a, b, c, d) ==
    DictGet(DictGet(DictGet(DictGet(record, a, EmptyDict), b, EmptyDict), c, EmptyDict),
            d, None)

BaseCell(record, col) ==
    CASE col = "population_2010_census" ->
            Get4(record, "population_by_gender", "summary", "total", "2010_census")
      [] col = "population_2019" ->
            Get4(record, "population_by_gender", "summary", "total", "2019")
      [] col = "median_age_total_2019"  -> Get3(record, "median_age", "total", "2019")
      [] col = "median_age_male_2019"   -> Get3(record, "median_age", "male", "2019")
      [] col = "median_age_female_2019" -> Get3(record, "median_age", "female", "2019")
      [] OTHER -> DictGet(record, col, None)

\* variant: .get(group) without the {} default
GroupDataNoDefault(record, group) ==
    DictGet(DictGet(DictGet(record, "population_by_age", EmptyDict), "total", EmptyDict),
            group, None)

\* group_data = record.get("population_by_age", {}).get("total", {}).get(group, {})
GroupData(record, group) ==
    DictGet(DictGet(DictGet(record, "population_by_age", EmptyDict), "total", EmptyDict),
            group, EmptyDict)

GroupCell(record, col) ==
    LET gy == CHOOSE p \in (1..Len(age_groups)) \X Years :
                    GroupColumn(age_groups[p[1]], p[2]) = col
    IN  DictGet(GroupData(record, age_groups[gy[1]]), gy[2], None)

\* base_info once the loop over age_groups has run
Flatten(record) ==
    [col \in BaseColumns \cup GroupColumns |->
        IF col \in BaseColumns THEN BaseCell(record, col) ELSE GroupCell(record, col)]

FlattenRaises(record) == \E col \in BaseColumns \cup GroupColumns : Flatten(record)[col] = AttrErr

\* pd.DataFrame(records): a column of numbers with a None in it becomes a
\* float column, the None a NaN; every other column keeps its values
IsNumber(v) == v.k \in {"int", "float"}

FrameCell(rows, i, col) ==
    LET vals == {rows[j][col] : j \in 1..Len(rows)}
        v == rows[i][col]
    IN  IF /\ None \in vals
           /\ \E x \in vals : IsNumber(x)
           /\ \A x \in vals : x = None \/ IsNumber(x)
        THEN IF v = None THEN NaN
             ELSE IF v.k = "int" THEN PyF(v.v, FALSE) ELSE v
        ELSE v

DataFrame(rows) ==
    [k |-> "frame",
     rows |-> [i \in 1..Len(rows) |->
                 [col \in BaseColumns \cup GroupColumns |-> FrameCell(rows, i, col)]]]

json_to_dataframe(json_data) ==
    DataFrame([i \in 1..Len(json_data.v) |-> Flatten(json_data.v[i])])

(* USDemographics.py: the files the model loads *)

Y2(a, b) == Dict(("2019" :> PyI(a)) @@ ("2010_census" :> PyI(b)))

\* a record with every field, all eighteen age groups included
RecFull ==
    Dict(("zipcode" :> PyS(<<"1", "0", "0", "0", "1">>))
         @@ ("major_city" :> PyS(<<"N", "Y", "C">>))
         @@ ("state" :> PyS(<<"N", "Y">>))
         @@ ("lat" :> PyF(40, TRUE))
         @@ ("lng" :> PyF(73, FALSE))
         @@ ("county" :> PyS(<<"N", "Y">>))
         @@ ("population_by_gender" :> Dict("summary" :> Dict("total" :> Y2(900, 800))))
         @@ ("median_age" :>
                Dict(("total" :> Dict("2019" :> PyI(38)))
                     @@ ("male" :> Dict("2019" :> PyI(37)))
                     @@ ("female" :> Dict("2019" :> PyI(39)))))
         @@ ("population_by_age" :>
                Dict("total" :>
                    Dict([g \in {age_groups[i] : i \in 1..Len(age_groups)} |->
                            LET i == CHOOSE j \in 1..Len(age_groups) : age_groups[j] = g
                            IN  Y2(i, 100 + i)]))))

\* population_by_age.total.0_4 holds 2019 = 120 and no 2010_census
RecOnly2019 ==
    Dict(("zipcode" :> PyS(<<"1", "0", "0", "0", "2">>))
         @@ ("population_by_age" :> Dict("total" :> Dict("0_4" :> Dict("2019" :> PyI(120))))))

RecOnly2010 ==
    Dict(("population_by_age" :>
            Dict("total" :> Dict("85_Plus" :> Dict("2010_census" :> PyI(7)))))
         @@ ("median_age" :> Dict("male" :> Dict("2019" :> PyI(41)))))

RecEmptyGroup ==
    Dict(("population_by_age" :> Dict("total" :> Dict("5_9" :> EmptyDict)))
         @@ ("population_by_gender" :> Dict("summary" :> EmptyDict)))

RecEmptyTotal == Dict("population_by_age" :> Dict("total" :> EmptyDict))

RecNoTotal == Dict(("population_by_age" :> EmptyDict) @@ ("median_age" :> EmptyDict))

RecEmpty == EmptyDict

\* "population_by_age": null, a key that is present and no object
RecNullAges == Dict(("zipcode" :> PyS(<<"1">>)) @@ ("population_by_age" :> None))

\* "total": 5 inside population_by_age
RecNumberTotal == Dict("population_by_age" :> Dict("total" :> PyI(5)))

RecordShapes ==
    {RecFull, RecOnly2019, RecOnly2010, RecEmptyGroup, RecEmptyTotal, RecNoTotal,
     RecEmpty, RecNullAges, RecNumberTotal, PyI(5)}

\* what us_county_demographics.json may hold
Payloads ==
    {List(s) : s \in UNION {[1..n -> RecordShapes] : n \in 0..MaxRecords}}
    \cup {Dict("data" :> List(<<RecFull>>)), EmptyDict, None, PyI(3), PyS(<<"x">>)}

\* a row the table held before the script ran
OldDemoRow == Flatten(RecFull)

InitDemo ==
    /\ dpc = "download"
    /\ payload = Unset
    /\ df = Unset
    /\ \E old \in {<<>>, <<OldDemoRow>>} :
            dtable = [before |-> old, rows |-> old, writes |-> 0]
    /\ dexit = "running"

(* USDemographics.py: the script, lines 84-100 *)

DownloadDatasetOk ==
    /\ dpc = "download"
    /\ dpc' = "load"
    /\ UNCHANGED <<payload, df, dtable, dexit, cvars, kvars>>

\* kagglehub.dataset_download raises: nothing catches it
DownloadDatasetFail ==
    /\ dpc = "download"
    /\ dpc' = "exit"
    /\ dexit' = "Exception"
    /\ UNCHANGED <<payload, df, dtable, cvars, kvars>>

LoadJsonOk ==
    /\ dpc = "load"
    /\ payload' \in Payloads
    /\ dpc' = "transform"
    /\ UNCHANGED <<df, dtable, dexit, cvars, kvars>>

\* the file is absent or is no JSON: open or json.load raises, nothing catches it
LoadJsonFail ==
    /\ dpc = "load"
    /\ dpc' = "exit"
    /\ dexit' \in {"FileNotFoundError", "JSONDecodeError"}
    /\ UNCHANGED <<payload, df, dtable, cvars, kvars>>

TransformOk ==
    /\ dpc = "transform"
    /\ payload.k = "list"
    /\ \A i \in 1..Len(payload.v) : ~FlattenRaises(payload.v[i])
    /\ df' = json_to_dataframe(payload)
    /\ dpc' = "save"
    /\ UNCHANGED <<payload, dtable, dexit, cvars, kvars>>

\* not a list: the ValueError of line 33 is caught at line 95, df is not bound
TransformValueError ==
    /\ dpc = "transform"
    /\ payload.k # "list"
    /\ dpc' = "save"
    /\ UNCHANGED <<payload, df, dtable, dexit, cvars, kvars>>

\* a .get on a value that is no dict: line 95 catches ValueError only
TransformAttributeError ==
    /\ dpc = "transform"
    /\ payload.k = "list"
    /\ \E i \in 1..Len(payload.v) : FlattenRaises(payload.v[i])
    /\ dpc' = "exit"
    /\ dexit' = "AttributeError"
    /\ UNCHANGED <<payload, df, dtable, cvars, kvars>>

\* variant: df is bound to an empty DataFrame before the try statement
SaveOfEmptyFrame ==
    /\ dpc = "save"
    /\ df = Unset
    /\ dtable' = [dtable EXCEPT !.rows = <<>>, !.writes = @ + 1]
    /\ dpc' = "exit"
    /\ dexit' = "ok"
    /\ UNCHANGED <<payload, df, cvars, kvars>>

\* line 100 reads df, which is not bound: NameError before save_to_sql is entered
SaveNameError ==
    /\ dpc = "save"
    /\ df = Unset
    /\ dpc' = "exit"
    /\ dexit' = "NameError"
    /\ UNCHANGED <<payload, df, dtable, cvars, kvars>>

\* df.to_sql(..., if_exists='replace')
SaveOk ==
    /\ dpc = "save"
    /\ df # Unset
    /\ dtable' = [dtable EXCEPT !.rows = df.rows, !.writes = @ + 1]
    /\ dpc' = "exit"
    /\ dexit' = "ok"
    /\ UNCHANGED <<payload, df, cvars, kvars>>

\* create_engine raises, or to_sql fails before touching the table: printed
SaveFailBefore ==
    /\ dpc = "save"
    /\ df # Unset
    /\ dpc' = "exit"
    /\ dexit' = "ok"
    /\ UNCHANGED <<payload, df, dtable, cvars, kvars>>

\* to_sql fails after the table was dropped: some of the rows, or none, are there
SaveFailDuring ==
    /\ dpc = "save"
    /\ df # Unset
    /\ \E n \in 0..Len(df.rows) :
            dtable' = [dtable EXCEPT !.rows = SubSeq(df.rows, 1, n), !.writes = @ + 1]
    /\ dpc' = "exit"
    /\ dexit' = "ok"
    /\ UNCHANGED <<payload, df, cvars, kvars>>

DemoNext ==
    \/ DownloadDatasetOk \/ DownloadDatasetFail
    \/ LoadJsonOk \/ LoadJsonFail
    \/ TransformOk \/ TransformValueError \/ TransformAttributeError
    \/ SaveNameError \/ SaveOk \/ SaveFailBefore \/ SaveFailDuring

DemoInit == IdleComplaints /\ IdleClean /\ InitDemo

DemoSpec == DemoInit /\ [][DemoNext]_vars

-----------------------------------------------------------------------------
(* Properties of the demographics pipeline *)

\* the value at a path of keys in a record, None when a key is missing
RECURSIVE PathValue(_, _)
PathValue(v, path) ==
    IF path = <<>> THEN v
    ELSE IF v.k = "dict" /\ path[1] \in DOMAIN v.v
         THEN PathValue(v.v[path[1]], Tail(path))
         ELSE None

\* a demographic record: an object whose nested containers, where present,
\* are objects
ContainerPaths ==
    {<<"population_by_gender">>, <<"population_by_gender", "summary">>,
     <<"population_by_gender", "summary", "total">>,
     <<"median_age">>, <<"median_age", "total">>, <<"median_age", "male">>,
     <<"median_age", "female">>,
     <<"population_by_age">>, <<"population_by_age", "total">>}
    \cup {<<"population_by_age", "total", age_groups[i]>> : i \in 1..Len(age_groups)}

KeyPresent(rec, path) ==
    LET parent == PathValue(rec, SubSeq(path, 1, Len(path) - 1))
    IN  parent.k = "dict" /\ path[Len(path)] \in DOMAIN parent.v

DemographicRecord(rec) ==
    /\ rec.k = "dict"
    /\ \A path \in ContainerPaths :
            KeyPresent(rec, path) => PathValue(rec, path).k = "dict"

\* a cell of the DataFrame against the JSON value it was taken from
SameValue(cell, val) ==
    IF val = None THEN cell \in {None, NaN}
    ELSE IF val.k = "int" THEN cell \in {val, PyF(val.v, FALSE)}
    ELSE cell = val

\* C7: json_to_dataframe yields one row per record, in input order; for each
\* of the 18 age groups g the columns population_g_2019 and
\* population_g_2010_census hold the values at population_by_age.total.g.2019
\* and .2010_census; a key missing at any level gives null, never an error.
C7_FlattenedAgeGroups ==
    /\ (dpc \in {"save", "exit"} /\ df # Unset) =>
            /\ Len(df.rows) = Len(payload.v)
            /\ \A i \in 1..Len(df.rows) :
                    /\ SameValue(df.rows[i]["zipcode"], PathValue(payload.v[i], <<"zipcode">>))
                    /\ \A g \in 1..Len(age_groups), y \in Years :
                            SameValue(df.rows[i][GroupColumn(age_groups[g], y)],
                                      PathValue(payload.v[i],
                                          <<"population_by_age", "total", age_groups[g], y>>))
    /\ (/\ payload # Unset
        /\ payload.k = "list"
        /\ \A i \in 1..Len(payload.v) : DemographicRecord(payload.v[i])) =>
            /\ dexit # "AttributeError"
            /\ (dpc \in {"save", "exit"} => df # Unset /\ df.k = "frame")

\* a full record, then one with 0_4.2019 = 120 and no 2010_census
C7_Witness ==
    /\ dpc = "exit"
    /\ dexit = "ok"
    /\ payload = List(<<RecFull, RecOnly2019>>)
    /\ df.rows[1]["population_0_4_2019"] = PyI(1)
    /\ df.rows[1]["population_85_Plus_2010_census"] = PyF(118, FALSE)
    /\ df.rows[2]["population_0_4_2019"] = PyI(120)
    /\ df.rows[2]["population_0_4_2010_census"] = NaN
    /\ dtable.rows = df.rows

\* C8: when the loaded payload is not a list the run never reaches PERSISTED:
\* to_sql is never executed, the table is left as it was, and the process ends
\* with an uncaught error instead of a normal exit.
C8_NonListIsFatal ==
    (payload # Unset /\ payload.k # "list") =>
        /\ df = Unset
        /\ dtable.writes = 0
        /\ dtable.rows = dtable.before
        /\ dexit \in {"running", "NameError"}
        /\ dpc \in {"transform", "save", "exit"}
        /\ (dpc = "exit" <=> dexit = "NameError")

\* an object instead of a list: the script died of NameError, the old row is there
C8_Witness ==
    /\ payload = Dict("data" :> List(<<RecFull>>))
    /\ dpc = "exit"
    /\ dexit = "NameError"
    /\ dtable.writes = 0
    /\ dtable.rows = <<OldDemoRow>>

====
